---- MODULE Spec2Model ----
(***************************************************************************)
(* GenAI Content Assistant (src/app.py): the Streamlit script as a state   *)
(* machine.  One script run = one pass through main(), started by a user   *)
(* event; st.session_state survives between runs, locals do not.           *)
(*                                                                         *)
(* Conventions.  A text is a sequence of one-character strings.  Python's  *)
(* None for an object is the empty sequence and a present object v is      *)
(* <<v>>; None for a bytes value is the string "None".  Metrics are        *)
(* integers in their rounded unit (ctr and conversion in hundredths,       *)
(* engagement in tenths).                                                  *)
(***************************************************************************)
EXTENDS Integers, Sequences, FiniteSets, TLC

VARIABLES
    generated_variants,   \* st.session_state.generated_variants
    generated_images,     \* st.session_state.generated_images
    genai_client,         \* st.session_state.genai_client
    pc,                   \* position of the running script ("idle": waiting for the user)
    clicked,              \* the widget whose click started this run
    brief,                \* value of the text area in this run
    rendered,             \* buttons drawn so far in this run (clickable once it ends)
    response,             \* generate_campaign_variants: response.text
    variants,             \* main: local `variants`, the parser's return value
    text_requests,        \* log: generate_content calls issued in this run
    metrics_a,            \* main: local metrics_a
    metrics_b,            \* main: local metrics_b
    variant_name,         \* display_variant_card: argument variant_name
    prompt,               \* display_variant_card: variant.image_prompt
    requests,             \* log: generate_images calls issued by this generate_image call
    img_response,         \* generate_image: local `response` of the last call that returned
    image_data,           \* display_variant_card: local image_data
    score_a,              \* main: best_metrics[0][1]
    score_b,              \* main: best_metrics[1][1]
    best_variant,         \* main: local best_variant
    export_data,          \* main: local export_data
    zip_entries,          \* main: entries written to the ZIP archive
    image_source,         \* log: for each stored image, the prompt its request carried
    variants0,            \* log: generated_variants when the run (or card call) began
    images0,              \* log: generated_images when the run (or card call) began
    payload,              \* parser harness: the payload text
    wrapper,              \* parser harness: the code fence put around the payload
    phase,                \* "app", or the parser harness's stage
    bare_variants         \* parser harness: what the bare payload parsed to

vars == <<generated_variants, generated_images, genai_client, pc, clicked, brief,
          rendered, response, variants, text_requests, metrics_a, metrics_b,
          variant_name, prompt, requests, img_response, image_data, score_a,
          score_b, best_variant, export_data, zip_entries, image_source,
          variants0, images0, payload, wrapper, phase, bare_variants>>

sessionVars == <<generated_variants, generated_images, genai_client>>
textVars == <<response, variants, text_requests>>
cardVars == <<variant_name, prompt, requests, img_response, image_data>>
metricVars == <<metrics_a, metrics_b>>
resultVars == <<score_a, score_b, best_variant, export_data, zip_entries>>
logVars == <<image_source, variants0, images0>>
harnessVars == <<payload, wrapper, phase, bare_variants>>

(***************************************************************************)
(* Bounds of the model.                                                    *)
(***************************************************************************)
MaxPayloadLen == 4     \* longest payload text the parser harness tries
MaxImages == 2         \* most image records in one generate_images response

(***************************************************************************)
(* Values.                                                                 *)
(***************************************************************************)
None == <<>>
NoBytes == "None"
EmptyMap == [x \in {} |-> NoBytes]
VariantNames == {"A", "B"}

\* Python str.strip() whitespace
Whitespace == {" ", "\n"}
\* the backquote character is written "^" (a string cannot hold a backquote)
Fence == <<"^", "^", "^">>
FenceJson == <<"^", "^", "^", "j", "s", "o", "n">>
FenceJsonLen == 7
FenceLen == 3

(***************************************************************************)
(* Text operations of generate_campaign_variants.                          *)
(***************************************************************************)
RECURSIVE LStrip(_)
LStrip(s) ==
    IF s # <<>> /\ Head(s) \in Whitespace THEN LStrip(Tail(s)) ELSE s

RECURSIVE RStrip(_)
RStrip(s) ==
    IF s # <<>> /\ s[Len(s)] \in Whitespace
    THEN RStrip(SubSeq(s, 1, Len(s) - 1))
    ELSE s

Strip(s) == RStrip(LStrip(s))

StartsWith(s, prefix) ==
    /\ Len(s) >= Len(prefix)
    /\ SubSeq(s, 1, Len(prefix)) = prefix

\* Python s[lo:-cut]
PySlice(s, lo, cut) ==
    IF lo + 1 <= Len(s) - cut THEN SubSeq(s, lo + 1, Len(s) - cut) ELSE <<>>

\* lines 138-142
StripFences(text) ==
    LET json_str == Strip(text)
    IN  IF StartsWith(json_str, FenceJson)
        THEN PySlice(json_str, FenceJsonLen, FenceLen)
        ELSE IF StartsWith(json_str, Fence)
             THEN PySlice(json_str, FenceLen, FenceLen)
             ELSE json_str

(***************************************************************************)
(* json.loads and the CampaignVariants constructor on a miniature JSON:    *)
(* a document is "{" members "}", each member one character.  "p" and "q"  *)
(* are a well-typed variant_a whose image_prompt is p or q, "r" and "s" a  *)
(* well-typed variant_b, "x" a variant_a of the wrong type.  json.loads    *)
(* skips whitespace and keeps the last of duplicate keys.                  *)
(***************************************************************************)
VariantAMembers == {"p", "q", "x"}
VariantBMembers == {"r", "s"}
MemberChars == VariantAMembers \cup VariantBMembers
WellTyped == {"p", "q", "r", "s"}

IsJsonObject(t) ==
    /\ Len(t) >= 2
    /\ t[1] = "{"
    /\ t[Len(t)] = "}"
    /\ \A i \in 2..(Len(t) - 1) : t[i] \in MemberChars \cup Whitespace

\* the value json.loads keeps for a key: the last member of that key, "" if none
RECURSIVE LastMember(_, _)
LastMember(t, keys) ==
    IF t = <<>> THEN ""
    ELSE IF t[Len(t)] \in keys THEN t[Len(t)]
    ELSE LastMember(SubSeq(t, 1, Len(t) - 1), keys)

CampaignAsset(member) == [image_prompt |-> member]

\* lines 144-150: the CampaignVariants, or None after any exception
ParseCampaign(json_str) ==
    LET t == Strip(json_str)
        a == LastMember(t, VariantAMembers)
        b == LastMember(t, VariantBMembers)
    IN  IF IsJsonObject(t) /\ a \in WellTyped /\ b \in WellTyped
        THEN <<[variant_a |-> CampaignAsset(a), variant_b |-> CampaignAsset(b)]>>
        ELSE None

\* lines 138-150: what generate_campaign_variants returns for response.text
ParseResponseText(text) == ParseCampaign(StripFences(text))

(***************************************************************************)
(* Inputs the model draws from.                                            *)
(***************************************************************************)
Briefs == {"", "promo"}

\* texts the text-generation service may return
TextResponses ==
    { <<"{", "p", "r", "}">>,
      FenceJson \o <<"\n", "{", "q", "s", "}", "\n">> \o Fence,
      Fence \o <<"{", "q", "r", "}">> \o Fence,
      <<"n", "o", "t", " ", "j", "s", "o", "n">>,
      <<"{", "p", "}">>,
      <<"{", "x", "r", "}">> }

\* byte payloads of the image service; "junk" is not an image PIL can open
ImageBytes == {"png1", "png2", "junk"}
Decodable(image_bytes) == image_bytes \in {"png1", "png2"}

\* an image record: without .image, with .image but no .image_bytes, or with bytes
ImageRecords == {"no_image", "no_bytes"} \cup ImageBytes
ImageResponses == UNION {[1..n -> ImageRecords] : n \in 0..MaxImages}
\* what a generate_images call does: raises (None) or returns a response
ImageOutcomes == {None} \cup {<<r>> : r \in ImageResponses}

\* outcomes of simulate_performance_metrics (lines 223-229), in rounded units
MetricsSamples ==
    { [ctr |-> 300, engagement |-> 200, conversion |-> 200],
      [ctr |-> 310, engagement |-> 190, conversion |-> 200],
      [ctr |-> 850, engagement |-> 450, conversion |-> 480] }
NoMetrics == [ctr |-> 0, engagement |-> 0, conversion |-> 0]

\* rounding error of one float score, in tenths of the 0.01 grid of the scores
RoundingErrors == {-1, 0, 1}

GenButton(name) == IF name = "A" THEN "gen_A" ELSE "gen_B"

Put(map, key, value) ==
    [k \in DOMAIN map \cup {key} |-> IF k = key THEN value ELSE map[k]]
Remove(map, key) == [k \in DOMAIN map \ {key} |-> map[k]]
Restrict(map, keys) == [k \in DOMAIN map \cap keys |-> map[k]]

PromptOf(v, name) ==
    IF name = "A" THEN v.variant_a.image_prompt ELSE v.variant_b.image_prompt

(***************************************************************************)
(* Initial state: lines 42-47, before the first run.                       *)
(***************************************************************************)
InitSession ==
    /\ generated_variants = None
    /\ generated_images = EmptyMap
    /\ genai_client = "None"

InitLocals ==
    /\ clicked = "none"
    /\ brief = ""
    /\ rendered = {}
    /\ text_requests = 0
    /\ metrics_a = NoMetrics
    /\ metrics_b = NoMetrics
    /\ variant_name = ""
    /\ prompt = ""
    /\ requests = <<>>
    /\ img_response = None
    /\ image_data = NoBytes
    /\ score_a = 0
    /\ score_b = 0
    /\ best_variant = ""
    /\ export_data = None
    /\ zip_entries = None
    /\ image_source = EmptyMap
    /\ variants0 = None
    /\ images0 = EmptyMap

NoWrapper == [open |-> <<>>, nl_open |-> FALSE, nl_close |-> FALSE, close |-> FALSE]

Init ==
    /\ InitSession
    /\ InitLocals
    /\ pc = "idle"
    /\ response = None
    /\ variants = None
    /\ payload = <<>>
    /\ wrapper = NoWrapper
    /\ phase = "app"
    /\ bare_variants = None

(***************************************************************************)
(* A script run, part 1: the user event, configure_api, the Generate       *)
(* button and generate_campaign_variants.                                  *)
(***************************************************************************)
\* The user clicks a button the last run drew, or causes a rerun otherwise
\* ("none": editing the brief, a download button), with some brief in the box.
UserEvent(widget, text) ==
    /\ pc = "idle"
    /\ widget \in rendered \cup {"none"}
    /\ pc' = "configure"
    /\ clicked' = widget
    /\ brief' = text
    /\ rendered' = {}
    /\ variants0' = generated_variants
    /\ images0' = generated_images
    /\ UNCHANGED <<sessionVars, textVars, metricVars, cardVars, resultVars,
                   image_source, harnessVars>>

\* lines 73-84 and 313: the client is created and stored
ConfigureApiOk ==
    /\ pc = "configure"
    /\ genai_client' = "client"
    /\ pc' = "generate_button"
    /\ UNCHANGED <<generated_variants, generated_images, clicked, brief, rendered,
                   textVars, metricVars, cardVars, resultVars, logVars, harnessVars>>

\* lines 59-61, 85-89 and 313-329: no key or no client; st.stop() ends the run
ConfigureApiFails ==
    /\ pc = "configure"
    /\ pc' = "done"
    /\ UNCHANGED <<sessionVars, clicked, brief, rendered, textVars, metricVars,
                   cardVars, resultVars, logVars, harnessVars>>

BriefMissingNever(text) == FALSE

\* line 341: not brief
BriefMissing(text) == text = ""

\* lines 340-343
GenerateButton ==
    /\ pc = "generate_button"
    /\ rendered' = rendered \cup {"generate"}
    /\ pc' = IF clicked = "generate"
             THEN IF BriefMissing(brief) THEN "done" ELSE "text_request"
             ELSE "display"
    /\ UNCHANGED <<sessionVars, clicked, brief, textVars, metricVars, cardVars,
                   resultVars, logVars, harnessVars>>

\* line 135: generate_content raises; nothing catches it and the run ends
TextRequestRaises ==
    /\ pc = "text_request"
    /\ text_requests' = text_requests + 1
    /\ pc' = "done"
    /\ UNCHANGED <<sessionVars, clicked, brief, rendered, response, variants,
                   metricVars, cardVars, resultVars, logVars, harnessVars>>

\* line 135: generate_content returns a response with this text
TextRequestReturns(text) ==
    /\ pc = "text_request"
    /\ text_requests' = text_requests + 1
    /\ response' = <<text>>
    /\ pc' = "parse"
    /\ UNCHANGED <<sessionVars, clicked, brief, rendered, variants, metricVars,
                   cardVars, resultVars, logVars, harnessVars>>

\* lines 137-150, and the assignment of line 346
ParseResponse ==
    /\ pc = "parse"
    /\ variants' = ParseResponseText(response[1])
    /\ pc' = "store"
    /\ UNCHANGED <<sessionVars, clicked, brief, rendered, response, text_requests,
                   metricVars, cardVars, resultVars, logVars, harnessVars>>

VariantsAfterGenerationUnguarded(parsed, stored) == parsed

\* lines 347-348
VariantsAfterGeneration(parsed, stored) ==
    IF parsed # None THEN parsed ELSE stored

ImagesAfterGenerationKept(parsed, images) == images

\* lines 347 and 349
ImagesAfterGeneration(parsed, images) ==
    IF parsed # None THEN EmptyMap ELSE images

\* lines 347-352
StoreVariants ==
    /\ pc = "store"
    /\ generated_variants' = VariantsAfterGeneration(variants, generated_variants)
    /\ generated_images' = ImagesAfterGeneration(variants, generated_images)
    /\ image_source' = Restrict(image_source, DOMAIN generated_images')
    /\ pc' = "display"
    /\ UNCHANGED <<genai_client, clicked, brief, rendered, textVars, metricVars,
                   cardVars, resultVars, variants0, images0, harnessVars>>

(***************************************************************************)
(* A script run, part 2: the results section.                              *)
(***************************************************************************)
\* line 355, generated_variants unset: nothing more is drawn
DisplayNothing ==
    /\ pc = "display"
    /\ generated_variants = None
    /\ pc' = "done"
    /\ UNCHANGED <<sessionVars, clicked, brief, rendered, textVars, metricVars,
                   cardVars, resultVars, logVars, harnessVars>>

\* lines 355-369: fresh metrics, then the card of variant A
DisplayResults(ma, mb) ==
    /\ pc = "display"
    /\ generated_variants # None
    /\ metrics_a' = ma
    /\ metrics_b' = mb
    /\ variant_name' = "A"
    /\ prompt' = PromptOf(generated_variants[1], "A")
    /\ pc' = "card"
    /\ UNCHANGED <<sessionVars, clicked, brief, rendered, textVars, requests,
                   img_response, image_data, resultVars, logVars, harnessVars>>

NeedsImageAlways(name, images) == TRUE

\* line 249
NeedsImage(name, images) == name \notin DOMAIN images

\* lines 249-252: the button is drawn only while the variant has no image
CardButton ==
    /\ pc = "card"
    /\ IF NeedsImage(variant_name, generated_images)
       THEN /\ rendered' = rendered \cup {GenButton(variant_name)}
            /\ pc' = IF clicked = GenButton(variant_name)
                     THEN "generate_image"
                     ELSE "show"
       ELSE /\ rendered' = rendered
            /\ pc' = "show"
    /\ UNCHANGED <<sessionVars, clicked, brief, textVars, metricVars, cardVars,
                   resultVars, logVars, harnessVars>>

(***************************************************************************)
(* generate_image, lines 152-221.                                          *)
(***************************************************************************)
\* lines 154-159
GenerateImageStart ==
    /\ pc = "generate_image"
    /\ IF genai_client = "None"
       THEN /\ image_data' = NoBytes
            /\ pc' = "image_return"
       ELSE /\ image_data' = image_data
            /\ pc' = "primary"
    /\ UNCHANGED <<sessionVars, clicked, brief, rendered, textVars, metricVars,
                   variant_name, prompt, requests, img_response, resultVars,
                   logVars, harnessVars>>

HasBytes(record) == record \notin {"no_image", "no_bytes"}

LastImageBytes(resp) ==
    IF Len(resp) > 0 /\ HasBytes(resp[Len(resp)]) THEN resp[Len(resp)] ELSE NoBytes

\* lines 175-187 and 207-210 (falling through to line 221)
FirstImageBytes(resp) ==
    IF Len(resp) > 0 /\ HasBytes(resp[1]) THEN resp[1] ELSE NoBytes

NeedsFallbackUnlessBytes(outcome) ==
    outcome = None \/ FirstImageBytes(outcome[1]) = NoBytes

\* line 189: only an exception of the primary call reaches the fallback
NeedsFallback(outcome) == outcome = None

\* lines 164-190
PrimaryRequest(outcome) ==
    /\ pc = "primary"
    /\ requests' = Append(requests, [call |-> "primary", prompt |-> prompt,
                                     raised |-> outcome = None])
    /\ img_response' = outcome
    /\ IF NeedsFallback(outcome)
       THEN /\ image_data' = image_data
            /\ pc' = "fallback"
       ELSE /\ image_data' = FirstImageBytes(outcome[1])
            /\ pc' = "image_return"
    /\ UNCHANGED <<sessionVars, clicked, brief, rendered, textVars, metricVars,
                   variant_name, prompt, resultVars, logVars, harnessVars>>

\* lines 193-221
FallbackRequest(outcome) ==
    /\ pc = "fallback"
    /\ requests' = Append(requests, [call |-> "fallback", prompt |-> prompt,
                                     raised |-> outcome = None])
    /\ img_response' = outcome
    /\ image_data' = IF outcome = None THEN NoBytes ELSE FirstImageBytes(outcome[1])
    /\ pc' = "image_return"
    /\ UNCHANGED <<sessionVars, clicked, brief, rendered, textVars, metricVars,
                   variant_name, prompt, resultVars, logVars, harnessVars>>

(***************************************************************************)
(* display_variant_card after the request, lines 253-273.                  *)
(***************************************************************************)
ImagesAfterRequestUnguarded(images, name, data) == Put(images, name, data)

\* lines 253-254
ImagesAfterRequest(images, name, data) ==
    IF data # NoBytes THEN Put(images, name, data) ELSE images

\* lines 252-256
CallerStore ==
    /\ pc = "image_return"
    /\ generated_images' = ImagesAfterRequest(generated_images, variant_name, image_data)
    /\ image_source' = IF generated_images' # generated_images
                       THEN Put(image_source, variant_name, prompt)
                       ELSE image_source
    /\ pc' = "show"
    /\ UNCHANGED <<generated_variants, genai_client, clicked, brief, rendered,
                   textVars, metricVars, cardVars, resultVars, variants0, images0,
                   harnessVars>>

ImagesAfterDisplayCleared(images, name) ==
    IF name \in DOMAIN images /\ ~Decodable(images[name]) THEN EmptyMap ELSE images

\* lines 258-273: an image that cannot be opened is deleted
ImagesAfterDisplay(images, name) ==
    IF name \in DOMAIN images /\ ~Decodable(images[name])
    THEN Remove(images, name)
    ELSE images

ShowImage ==
    /\ pc = "show"
    /\ generated_images' = ImagesAfterDisplay(generated_images, variant_name)
    /\ image_source' = Restrict(image_source, DOMAIN generated_images')
    /\ pc' = "card_done"
    /\ UNCHANGED <<generated_variants, genai_client, clicked, brief, rendered,
                   textVars, metricVars, cardVars, resultVars, variants0, images0,
                   harnessVars>>

\* lines 369-372: the card of variant B follows the card of variant A
NextCard ==
    /\ pc = "card_done"
    /\ IF variant_name = "A"
       THEN /\ variant_name' = "B"
            /\ prompt' = PromptOf(generated_variants[1], "B")
            /\ pc' = "card"
       ELSE /\ variant_name' = ""
            /\ prompt' = ""
            /\ pc' = "recommend"
    /\ requests' = <<>>
    /\ img_response' = None
    /\ image_data' = NoBytes
    /\ UNCHANGED <<sessionVars, clicked, brief, rendered, textVars, metricVars,
                   resultVars, logVars, harnessVars>>

(***************************************************************************)
(* A script run, part 3: recommendation and export, lines 375-428.         *)
(***************************************************************************)
\* lines 378-379: ctr + engagement * 0.1 + conversion * 2 in float arithmetic.
\* The exact sum is a multiple of 0.01; the result is given in thousandths,
\* off the exact value by the rounding of the float operations.
FloatScore(metrics, rounding) ==
    10 * (metrics.ctr + metrics.engagement + 2 * metrics.conversion) + rounding

\* Python max(items, key=lambda x: x[1]): the first item with the greatest key
RECURSIVE PyMax(_)
PyMax(items) ==
    IF Len(items) = 1 THEN items[1]
    ELSE LET rest == PyMax(Tail(items))
         IN  IF rest[2] > items[1][2] THEN rest ELSE items[1]

BestVariantLastMax(sa, sb) == IF sb >= sa THEN "B" ELSE "A"

\* lines 377-382
BestVariant(sa, sb) == PyMax(<<(<<"A", sa>>), (<<"B", sb>>)>>)[1]

Recommend(ra, rb) ==
    /\ pc = "recommend"
    /\ score_a' = FloatScore(metrics_a, ra)
    /\ score_b' = FloatScore(metrics_b, rb)
    /\ best_variant' = BestVariant(score_a', score_b')
    /\ pc' = "export"
    /\ UNCHANGED <<sessionVars, clicked, brief, rendered, textVars, metricVars,
                   cardVars, export_data, zip_entries, logVars, harnessVars>>

\* lines 392-400
ExportData ==
    [creative_brief |-> brief,
     variants |-> generated_variants[1],
     performance_simulation |-> [variant_a |-> metrics_a, variant_b |-> metrics_b],
     recommendation |-> <<"Variant", best_variant>>]

\* lines 389-428
Export ==
    /\ pc = "export"
    /\ rendered' = rendered \cup {"export_json"}
                     \cup (IF generated_images # EmptyMap
                           THEN {"export_images"} ELSE {})
    /\ export_data' = IF clicked = "export_json" THEN <<ExportData>> ELSE None
    /\ zip_entries' = IF generated_images # EmptyMap /\ clicked = "export_images"
                      THEN <<generated_images>>
                      ELSE None
    /\ pc' = "done"
    /\ UNCHANGED <<sessionVars, clicked, brief, textVars, metricVars, cardVars,
                   score_a, score_b, best_variant, logVars, harnessVars>>

\* The script has ended: its locals are gone, the page waits for the user.
EndRun ==
    /\ pc = "done"
    /\ pc' = "idle"
    /\ clicked' = "none"
    /\ brief' = ""
    /\ response' = None
    /\ variants' = None
    /\ text_requests' = 0
    /\ metrics_a' = NoMetrics
    /\ metrics_b' = NoMetrics
    /\ variant_name' = ""
    /\ prompt' = ""
    /\ requests' = <<>>
    /\ img_response' = None
    /\ image_data' = NoBytes
    /\ score_a' = 0
    /\ score_b' = 0
    /\ best_variant' = ""
    /\ export_data' = None
    /\ zip_entries' = None
    /\ variants0' = None
    /\ images0' = EmptyMap
    /\ UNCHANGED <<sessionVars, rendered, image_source, harnessVars>>

Next ==
    \/ \E widget \in {"none", "generate", "gen_A", "gen_B", "export_json",
                      "export_images"}, text \in Briefs : UserEvent(widget, text)
    \/ ConfigureApiOk
    \/ ConfigureApiFails
    \/ GenerateButton
    \/ TextRequestRaises
    \/ \E text \in TextResponses : TextRequestReturns(text)
    \/ ParseResponse
    \/ StoreVariants
    \/ DisplayNothing
    \/ \E ma \in MetricsSamples, mb \in MetricsSamples : DisplayResults(ma, mb)
    \/ CardButton
    \/ GenerateImageStart
    \/ \E outcome \in ImageOutcomes : PrimaryRequest(outcome)
    \/ \E outcome \in ImageOutcomes : FallbackRequest(outcome)
    \/ CallerStore
    \/ ShowImage
    \/ NextCard
    \/ \E ra \in RoundingErrors, rb \in RoundingErrors : Recommend(ra, rb)
    \/ Export
    \/ EndRun

Spec == Init /\ [][Next]_vars

(***************************************************************************)
(* The Image Requester on its own: display_variant_card called directly,   *)
(* for any variant and prompt, before or after configure_api has stored a  *)
(* client.                                                                 *)
(***************************************************************************)
InitRequester ==
    /\ InitSession
    /\ InitLocals
    /\ pc = "card_done"
    /\ response = None
    /\ variants = None
    /\ payload = <<>>
    /\ wrapper = NoWrapper
    /\ phase = "card"
    /\ bare_variants = None

\* lines 79-83
CallConfigureApi ==
    /\ pc = "card_done"
    /\ genai_client = "None"
    /\ genai_client' = "client"
    /\ UNCHANGED <<generated_variants, generated_images, pc, clicked, brief,
                   rendered, textVars, metricVars, cardVars, resultVars, logVars,
                   harnessVars>>

\* lines 231-249: a call of display_variant_card, its button clicked or not
CallDisplayVariantCard(name, image_prompt, click) ==
    /\ pc = "card_done"
    /\ variant_name' = name
    /\ prompt' = image_prompt
    /\ clicked' = IF click THEN GenButton(name) ELSE "none"
    /\ rendered' = {}
    /\ requests' = <<>>
    /\ img_response' = None
    /\ image_data' = NoBytes
    /\ images0' = generated_images
    /\ pc' = "card"
    /\ UNCHANGED <<sessionVars, brief, textVars, metricVars, resultVars,
                   image_source, variants0, harnessVars>>

NextRequester ==
    \/ CallConfigureApi
    \/ \E name \in VariantNames, image_prompt \in WellTyped, click \in BOOLEAN :
         CallDisplayVariantCard(name, image_prompt, click)
    \/ CardButton
    \/ GenerateImageStart
    \/ \E outcome \in ImageOutcomes : PrimaryRequest(outcome)
    \/ \E outcome \in ImageOutcomes : FallbackRequest(outcome)
    \/ CallerStore
    \/ ShowImage

SpecRequester == InitRequester /\ [][NextRequester]_vars

(***************************************************************************)
(* The Campaign Parser on its own: lines 137-150 applied to a payload text *)
(* and then to the same payload inside a code fence.                       *)
(***************************************************************************)
PayloadChars == {"{", "}", "p", "r", "\n"}
Payloads == UNION {[1..n -> PayloadChars] : n \in 0..MaxPayloadLen}
Wrappers == [open : {Fence, FenceJson}, nl_open : BOOLEAN, nl_close : BOOLEAN,
             close : BOOLEAN]

Wrap(text, w) ==
    w.open \o (IF w.nl_open THEN <<"\n">> ELSE <<>>) \o text
           \o (IF w.nl_close THEN <<"\n">> ELSE <<>>)
           \o (IF w.close THEN Fence ELSE <<>>)

InitParser ==
    /\ InitSession
    /\ InitLocals
    /\ payload \in Payloads
    /\ wrapper \in Wrappers
    /\ phase = "bare"
    /\ response = <<payload>>
    /\ variants = None
    /\ bare_variants = None
    /\ pc = "parse"

\* the service answers the same payload, this time inside the fence
RespondWrapped ==
    /\ pc = "store"
    /\ phase = "bare"
    /\ bare_variants' = variants
    /\ response' = <<Wrap(payload, wrapper)>>
    /\ phase' = "wrapped"
    /\ pc' = "parse"
    /\ UNCHANGED <<sessionVars, clicked, brief, rendered, variants, text_requests,
                   metricVars, cardVars, resultVars, logVars, payload, wrapper>>

NextParser ==
    \/ ParseResponse
    \/ RespondWrapped

SpecParser == InitParser /\ [][NextParser]_vars

(***************************************************************************)
(* Properties.                                                             *)
(***************************************************************************)

\* C1: once a run's generation has parsed a CampaignVariants, the session holds
\* exactly that value and an empty image map, whatever it held before.
C1_SuccessfulGenerationResets ==
    (clicked = "generate" /\ variants # None /\ pc # "store")
        => /\ generated_variants = variants
           /\ generated_images = EmptyMap

\* C1 witness: a generation succeeded in a session that held other variants
\* and an image for each of A and B.
C1_Witness ==
    /\ pc = "done"
    /\ clicked = "generate"
    /\ variants # None
    /\ variants0 # None
    /\ variants0 # variants
    /\ DOMAIN images0 = {"A", "B"}
    /\ generated_images = EmptyMap

MalformedResponses ==
    { <<"n", "o", "t", " ", "j", "s", "o", "n">>,
      <<"{", "p", "}">>,
      <<"{", "x", "r", "}">> }

\* C2: a response that is not JSON, lacks a field or mistypes one yields no
\* CampaignVariants, and a generation that yields none leaves the stored
\* variants and the image map as they were when the run began.
C2_ParseFailureChangesNothing ==
    (clicked = "generate" /\ response # None /\ pc # "parse")
        => /\ response[1] \in MalformedResponses => variants = None
           /\ variants = None => /\ generated_variants = variants0
                                 /\ generated_images = images0

\* C2 witness: the parse failed in a session that held variants and an image.
C2_Witness ==
    /\ pc = "done"
    /\ clicked = "generate"
    /\ response # None
    /\ response[1] \in MalformedResponses
    /\ variants = None
    /\ variants0 # None
    /\ images0 # EmptyMap

\* C3 as stated: a stored entry is removed or changed by nothing but a
\* successful generation, which empties the map.
C3_OnlyGenerationRemoves ==
    [][\A x \in DOMAIN generated_images :
          \/ x \in DOMAIN generated_images' /\ generated_images'[x] = generated_images[x]
          \/ pc = "store" /\ variants # None /\ generated_images' = EmptyMap]_vars

\* C3 amended: a stored entry is removed or changed only by a successful
\* generation, which empties the map, or by the display of its own card when
\* its bytes cannot be opened as an image, which deletes that entry alone.
C3_GenerationOrFailedDisplayRemoves ==
    [][\A x \in DOMAIN generated_images :
          \/ x \in DOMAIN generated_images' /\ generated_images'[x] = generated_images[x]
          \/ pc = "store" /\ variants # None /\ generated_images' = EmptyMap
          \/ /\ pc = "show"
             /\ x = variant_name
             /\ ~Decodable(generated_images[x])
             /\ DOMAIN generated_images' = DOMAIN generated_images \ {x}]_vars

\* C3 witness: the image request for B failed while A had an image, and the
\* card of B has been displayed.
C3_Witness ==
    /\ pc = "card_done"
    /\ variant_name = "B"
    /\ clicked = "gen_B"
    /\ requests # <<>>
    /\ image_data = NoBytes
    /\ "A" \in DOMAIN generated_images

\* C4: a generate_image call issues no request without a client; otherwise one
\* primary request, followed by one fallback request exactly when the primary
\* request raised; never a third.
C4_OnePrimaryOneFallback ==
    /\ Len(requests) <= 2
    /\ \A i \in 1..Len(requests) : requests[i].prompt = prompt
    /\ pc = "fallback" => Len(requests) = 1 /\ requests[1].raised
    /\ pc = "image_return" =>
          IF genai_client = "None"
          THEN requests = <<>>
          ELSE /\ Len(requests) \in {1, 2}
               /\ requests[1].call = "primary"
               /\ (Len(requests) = 2) <=> requests[1].raised
               /\ Len(requests) = 2 => requests[2].call = "fallback"

\* C4 witness: the primary and the fallback request both raised, and the call
\* has returned.
C4_Witness ==
    /\ pc = "image_return"
    /\ Len(requests) = 2
    /\ requests[1].raised
    /\ requests[2].raised

UnusableResponse(resp) == resp = <<>> \/ Head(resp) \in {"no_image", "no_bytes"}

\* C5: when the image service answers with no image record, or a first record
\* without image or without bytes, the call returns no image, and the image
\* map and the stored variants are as they were; the variants are still set.
C5_UnusableResponseChangesNothing ==
    (/\ pc \in {"image_return", "show", "card_done"}
     /\ img_response # None
     /\ UnusableResponse(img_response[1]))
        => /\ image_data = NoBytes
           /\ generated_images = images0
           /\ generated_variants = variants0
           /\ generated_variants # None

\* C5 witness: the request for B returned a record without bytes while A had
\* an image; the card of B has been displayed.
C5_Witness ==
    /\ pc = "card_done"
    /\ variant_name = "B"
    /\ img_response = <<(<<"no_bytes">>)>>
    /\ "A" \in DOMAIN generated_images

\* C6: generate_image returns the bytes of the first record of the response
\* of its last request when that request returned and the record has bytes,
\* and no bytes otherwise; the caller stores what is returned under the
\* requesting variant's name and changes no other entry.
C6_ReturnsFirstRecordBytes ==
    /\ pc = "image_return" =>
          image_data =
             IF genai_client = "None" \/ img_response = None
             THEN NoBytes
             ELSE IF img_response[1] # <<>> /\ Head(img_response[1]) \in ImageBytes
                  THEN Head(img_response[1])
                  ELSE NoBytes
    /\ (pc = "show" /\ image_data # NoBytes) =>
          /\ DOMAIN generated_images = DOMAIN images0 \cup {variant_name}
          /\ generated_images[variant_name] = image_data
          /\ \A k \in DOMAIN images0 \ {variant_name} : generated_images[k] = images0[k]

\* C6 witness: the primary request raised, the fallback returned two records,
\* the bytes of the first were stored for B next to an image of A.
C6_Witness ==
    /\ pc = "show"
    /\ variant_name = "B"
    /\ "A" \in DOMAIN images0
    /\ Len(requests) = 2
    /\ img_response = <<(<<"png2", "png1">>)>>
    /\ image_data = "png2"

\* C7: a payload inside a code fence (``` or ```json, closed or not, with or
\* without newlines) parses to what the bare payload parses to.
C7_WrappedParsesLikeBare ==
    (phase = "wrapped" /\ pc = "store") => variants = bare_variants

\* C8: a Generate click with an empty brief issues no text request and leaves
\* variants and images alone; no run issues more than one text request; and
\* unset variants become set only in the store step of a Generate click with
\* a non-empty brief whose one request parsed.
C8_EmptyBriefAndSingleRequest ==
    /\ [](/\ text_requests <= 1
          /\ (clicked = "generate" /\ brief = "")
                => /\ text_requests = 0
                   /\ response = None
                   /\ pc \in {"configure", "generate_button", "done"}
                   /\ generated_variants = variants0
                   /\ generated_images = images0)
    /\ [][(generated_variants = None /\ generated_variants' # None)
             => /\ pc = "store"
                /\ clicked = "generate"
                /\ brief # ""
                /\ text_requests = 1
                /\ variants # None
                /\ generated_variants' = variants]_vars

\* C8 witness: Generate was clicked with an empty brief in a session holding
\* variants and an image, and the run has ended.
C8_Witness ==
    /\ pc = "done"
    /\ clicked = "generate"
    /\ brief = ""
    /\ variants0 # None
    /\ images0 # EmptyMap

\* C9: the image map has keys A and B only, is empty while no variants are
\* stored, holds for X only an image requested with the image_prompt of X of
\* the variants now stored, and a request for X runs only while X has no entry.
C9_ImagesBelongToStoredVariants ==
    /\ DOMAIN generated_images \subseteq VariantNames
    /\ generated_images # EmptyMap => generated_variants # None
    /\ DOMAIN image_source = DOMAIN generated_images
    /\ \A x \in DOMAIN generated_images :
          image_source[x] = PromptOf(generated_variants[1], x)
    /\ pc \in {"generate_image", "primary", "fallback", "image_return"} =>
          /\ variant_name \notin DOMAIN generated_images
          /\ prompt = PromptOf(generated_variants[1], variant_name)
          /\ \A i \in 1..Len(requests) : requests[i].prompt = prompt

\* C9 witness: after a second generation both variants have an image again,
\* requested with the prompts of the variants now stored.
C9_Witness ==
    /\ pc = "idle"
    /\ DOMAIN generated_images = {"A", "B"}
    /\ generated_variants = <<[variant_a |-> CampaignAsset("q"),
                               variant_b |-> CampaignAsset("s")]>>
    /\ image_source = [x \in {"A", "B"} |-> IF x = "A" THEN "q" ELSE "s"]

\* C10: the recommended variant is B when B's computed score is greater and A
\* otherwise, each score being ctr + 0.1*engagement + 2*conversion of this
\* run's metrics up to float rounding; the export carries that label and
\* these metrics.
C10_RecommendationFollowsScores ==
    (pc \in {"export", "done"} /\ best_variant # "") =>
        /\ score_a - 10 * (metrics_a.ctr + metrics_a.engagement + 2 * metrics_a.conversion)
              \in RoundingErrors
        /\ score_b - 10 * (metrics_b.ctr + metrics_b.engagement + 2 * metrics_b.conversion)
              \in RoundingErrors
        /\ best_variant = IF score_b > score_a THEN "B" ELSE "A"
        /\ export_data # None =>
              /\ export_data[1].recommendation = <<"Variant", best_variant>>
              /\ export_data[1].performance_simulation.variant_a = metrics_a
              /\ export_data[1].performance_simulation.variant_b = metrics_b
              /\ export_data[1].variants = generated_variants[1]
              /\ export_data[1].creative_brief = brief

\* C10 witness: two different metric records with equal computed scores; A is
\* recommended and the JSON export was requested.
C10_Witness ==
    /\ pc = "done"
    /\ export_data # None
    /\ metrics_a # metrics_b
    /\ score_a = score_b
    /\ best_variant = "A"

====
